---- MODULE Spec2Model ----
(***************************************************************************)
(* Model of src/app.py: the two-carrier (DHL Freight / Raben) quote page.  *)
(*                                                                         *)
(* Representation                                                          *)
(*   - a Python str is a sequence of one-character strings;                *)
(*   - None is the empty tuple, any other optional value v is <<v>>;       *)
(*   - weights are integers in 1/100 kg (10000 = 100.00 kg);               *)
(*   - money is an integer in 1/10000 EUR (450000 = 45.00 EUR); every      *)
(*     price and fee of the tables and widgets is a whole number of cents, *)
(*     so base * (1 + pct) is exact; binary floating-point rounding of     *)
(*     the Python floats is not modelled;                                  *)
(*   - a percentage widget value p/100 (step 0.01) is the integer p.       *)
(***************************************************************************)
EXTENDS Integers, Sequences, FiniteSets, TLC

VARIABLES
    raw,              \* which set of CSV files data/ holds (see Files)
    data,             \* load_all_data(): the cached, normalised tables
    scope,            \* st.selectbox "Scope"
    dest_country,     \* st.text_input destination country
    weight,           \* st.number_input actual weight
    plz_input,        \* st.text_input destination PLZ
    dest_plz2,        \* norm_plz2(plz_input), recomputed on every script run
    adr, avis,        \* checkboxes
    insurance_value,  \* st.number_input insurance value
    params,           \* sidebar: fuel, security, DAF percentages and the flat fees
    btn,              \* TRUE in the run triggered by the button
    dhl_res, dhl_err, \* results of the last run (None outside a button run)
    raben_res, raben_err

vars == << raw, data, scope, dest_country, weight, plz_input, dest_plz2, adr, avis,
           insurance_value, params, btn, dhl_res, dhl_err, raben_res, raben_err >>

inputs == << scope, dest_country, weight, plz_input, dest_plz2, adr, avis,
             insurance_value, params >>

(***************************************************************************)
(* Bounds of the model.                                                    *)
(***************************************************************************)
MaxPlzLen == 2

(***************************************************************************)
(* Python values.                                                          *)
(***************************************************************************)
None == << >>
Some(v) == << v >>

\* pandas NaN / pd.NA in a numeric column (to_numeric(errors="coerce"));
\* every genuine zone, weight and price of the tables is >= 0.
NaN == -1

isna(v) == v = NaN

Digits == {"0", "1", "2", "3", "4", "5", "6", "7", "8", "9"}

\* upper-case / lower-case pairs of the letters that occur in the inputs
LetterPairs ==
    << <<"A", "a">>, <<"B", "b">>, <<"C", "c">>, <<"D", "d">>, <<"E", "e">>,
       <<"G", "g">>, <<"H", "h">>, <<"I", "i">>, <<"L", "l">>, <<"M", "m">>,
       <<"N", "n">>, <<"O", "o">>, <<"P", "p">>, <<"R", "r">>, <<"S", "s">>,
       <<"T", "t">>, <<"U", "u">>, <<"V", "v">>, <<"X", "x">>, <<"Y", "y">> >>

upper_char(c) ==
    IF \E i \in 1..Len(LetterPairs) : LetterPairs[i][2] = c
    THEN LetterPairs[CHOOSE i \in 1..Len(LetterPairs) : LetterPairs[i][2] = c][1]
    ELSE c

lower_char(c) ==
    IF \E i \in 1..Len(LetterPairs) : LetterPairs[i][1] = c
    THEN LetterPairs[CHOOSE i \in 1..Len(LetterPairs) : LetterPairs[i][1] = c][2]
    ELSE c

\* str.upper(), str.lower()
upper(s) == [i \in 1..Len(s) |-> upper_char(s[i])]
lower(s) == [i \in 1..Len(s) |-> lower_char(s[i])]

\* str.strip(): drop leading and trailing whitespace
strip(s) ==
    LET keep == {i \in 1..Len(s) : s[i] # " "}
    IN  IF keep = {} THEN << >>
        ELSE LET lo == CHOOSE i \in keep : \A j \in keep : i <= j
                 hi == CHOOSE i \in keep : \A j \in keep : j <= i
             IN  SubSeq(s, lo, hi)

\* str.zfill(width)
RECURSIVE zfill(_, _)
zfill(s, width) == IF Len(s) >= width THEN s ELSE zfill(<<"0">> \o s, width)

\* re.sub(r"\D", "", s)
IsDigit(c) == c \in Digits
only_digits(s) == SelectSeq(s, IsDigit)

norm_plz2(x) ==
    LET s == strip(x)
        digits == only_digits(s)
    IN  IF Len(digits) >= 2 THEN zfill(SubSeq(digits, 1, 2), 2)
        ELSE IF Len(digits) = 1 THEN zfill(digits, 2)
        ELSE << >>

norm_country_code(x) == upper(strip(x))

norm_country_name(x) == lower(strip(x))

\* format_money: "{x:,.2f}", the amount rounded to whole cents (half to even)
format_money(x) ==
    LET q == x \div 100
        r == x % 100
    IN  IF r > 50 \/ (r = 50 /\ q % 2 = 1) THEN q + 1 ELSE q

(***************************************************************************)
(* Data frames: a frame is a sequence of rows (records), in table order;   *)
(* df[mask] is SelectSeq(df, mask), df.empty is Len(df) = 0, df.iloc[0] is *)
(* df[1].                                                                  *)
(***************************************************************************)
(***************************************************************************)
(* load_all_data: normalise the key columns and drop the rows with a       *)
(* missing value.  A numeric cell is a number or NaN (pandas has parsed    *)
(* the file; to_numeric(errors="coerce") leaves both as they are).         *)
(* norm_plz2 and the country normalisers return a str, never NaN, so       *)
(* dropna never drops a row because of its plz2 or country column.         *)
(***************************************************************************)
load_dhl_de_plz2_zone(ddz) ==
    LET norm(r) == [r EXCEPT !.plz2 = norm_plz2(@)]
        keep(r) == ~isna(r.zone)
    IN  SelectSeq([i \in 1..Len(ddz) |-> norm(ddz[i])], keep)

load_dhl_de_rates(ddr) ==
    LET keep(r) == ~isna(r.zone) /\ ~isna(r.w_from) /\ ~isna(r.w_to) /\ ~isna(r.price)
    IN  SelectSeq(ddr, keep)

load_dhl_eu_zone_map(dez) ==
    LET norm(r) == [r EXCEPT !.country_code = norm_country_code(@),
                             !.plz2 = norm_plz2(@)]
        keep(r) == ~isna(r.zone)
    IN  SelectSeq([i \in 1..Len(dez) |-> norm(dez[i])], keep)

load_dhl_eu_rates_long(der) ==
    LET norm(r) == [r EXCEPT !.country_code = norm_country_code(@)]
        keep(r) == ~isna(r.zone) /\ ~isna(r.w_from) /\ ~isna(r.w_to) /\ ~isna(r.price)
    IN  SelectSeq([i \in 1..Len(der) |-> norm(der[i])], keep)

load_raben_zone_map(rzm) ==
    LET norm(r) == [scope |-> upper(strip(r.scope)),
                    country |-> r.country,
                    plz |-> r.plz,
                    zone |-> r.zone,
                    country_norm |-> norm_country_name(r.country),
                    plz2 |-> norm_plz2(r.plz)]
        keep(r) == ~isna(r.zone)
    IN  SelectSeq([i \in 1..Len(rzm) |-> norm(rzm[i])], keep)

load_raben_rates_long(rrl) ==
    LET norm(r) == [scope |-> upper(strip(r.scope)),
                    country |-> r.country,
                    zone |-> r.zone,
                    w_from |-> r.w_from,
                    w_to |-> r.w_to,
                    price |-> r.price,
                    country_norm |-> norm_country_name(r.country)]
        keep(r) == ~isna(r.zone) /\ ~isna(r.w_from) /\ ~isna(r.w_to) /\ ~isna(r.price)
    IN  SelectSeq([i \in 1..Len(rrl) |-> norm(rrl[i])], keep)

load_all_data(files) ==
    [dhl_de_plz2_zone  |-> load_dhl_de_plz2_zone(files.dhl_de_plz2_zone),
     dhl_de_rates      |-> load_dhl_de_rates(files.dhl_de_rates),
     dhl_eu_zone_map   |-> load_dhl_eu_zone_map(files.dhl_eu_zone_map),
     dhl_eu_rates_long |-> load_dhl_eu_rates_long(files.dhl_eu_rates_long),
     raben_zone_map    |-> load_raben_zone_map(files.raben_zone_map),
     raben_rates_long  |-> load_raben_rates_long(files.raben_rates_long)]

(***************************************************************************)
(* pick_weight_band                                                        *)
(***************************************************************************)
\* the columns of the frame after the coercion and the w_to fill; df is the
\* caller's filtered copy of the rate table (load_all_data has dropped the rows
\* without w_to, so the fill finds nothing to fill)
coerce_bands(df) ==
    LET fill(r) == [r EXCEPT !.w_to = IF isna(@) THEN 10 ^ 12 ELSE @]
    IN  [i \in 1..Len(df) |-> fill(df[i])]

\* df["w_from"] <= weight and weight <= df["w_to"]; a comparison with NaN is False
band_matches(r, w) == ~isna(r.w_from) /\ r.w_from <= w /\ w <= r.w_to

band_width(r) == IF r.w_to >= r.w_from THEN r.w_to - r.w_from ELSE r.w_from - r.w_to

\* sort_values(["band_width", "w_from"]) is stable: r comes before q
band_before(r, q) ==
    \/ band_width(r) < band_width(q)
    \/ band_width(r) = band_width(q) /\ r.w_from <= q.w_from

max_w_to(df) ==
    LET tos == {df[i].w_to : i \in 1..Len(df)}
    IN  CHOOSE mx \in tos : \A t \in tos : t <= mx

\* pick_weight_band without the fallback to the widest band
pick_weight_band_NoFallback(df, w) ==
    IF Len(df) = 0 THEN None
    ELSE
        LET c == coerce_bands(df)
            hit(r) == band_matches(r, w)
            m == SelectSeq(c, hit)
        IN  IF Len(m) > 0
            THEN LET i == CHOOSE i \in 1..Len(m) :
                              /\ \A j \in 1..Len(m) : band_before(m[i], m[j])
                              /\ \A j \in 1..(i - 1) : ~band_before(m[j], m[i])
                 IN  Some(m[i])
            ELSE None

pick_weight_band(df, w) ==
    IF Len(df) = 0 THEN None
    ELSE
        LET c == coerce_bands(df)
            hit(r) == band_matches(r, w)
            m == SelectSeq(c, hit)
        IN  IF Len(m) > 0
            THEN \* the narrowest band, then the smallest w_from, then table order
                 LET i == CHOOSE i \in 1..Len(m) :
                              /\ \A j \in 1..Len(m) : band_before(m[i], m[j])
                              /\ \A j \in 1..(i - 1) : ~band_before(m[j], m[i])
                 IN  Some(m[i])
            ELSE \* fallback: a weight above every band takes the band with the largest w_to
                 LET mx == max_w_to(c)
                     top(r) == r.w_to = mx
                 IN  IF w > mx THEN Some(SelectSeq(c, top)[1]) ELSE None

(***************************************************************************)
(* Business logic.  A quote is the pair (result, error) the function       *)
(* returns: [res |-> ..., err |-> ...], one of the two being None.         *)
(* An error message is the record of the values its f-string formats; a    *)
(* detail line is the sequence of its " | "-separated parts, each          *)
(* [label, text, amount]: the text it shows and the number it formats      *)
(* (a money amount in cents after format_money, a percentage, a zone).     *)
(***************************************************************************)
Part(label, text, amount) == [label |-> label, text |-> text, amount |-> amount]

Error(msg, place, plz2, zone) == [msg |-> msg, place |-> place, plz2 |-> plz2, zone |-> zone]

Quote(res, err) == [res |-> res, err |-> err]

\* the surcharges applied one on top of the other
dhl_total_Compound(base, fuel_pct, security_pct) ==
    (((base * (100 + fuel_pct)) \div 100) * (100 + security_pct)) \div 100

\* total = base * (1.0 + fuel_pct + security_pct)
dhl_total(base, fuel_pct, security_pct) ==
    (base * (100 + fuel_pct + security_pct)) \div 100

dhl_detail(place, zone, base, fuel_pct, security_pct, total) ==
    << Part("Zone", place, zone),
       Part("Base", << >>, format_money(base)),
       Part("Fuel", << >>, fuel_pct),
       Part("Security", << >>, security_pct),
       Part("Total", << >>, format_money(total)) >>

\* row = ddz[ddz["plz2"] == plz2], or zmap[(country_code == cc) & (plz2 == plz2)]
dhl_zone_row(d, sc, country, plz2) ==
    IF sc = <<"D", "E">>
    THEN LET at(r) == r.plz2 = plz2
         IN  SelectSeq(d.dhl_de_plz2_zone, at)
    ELSE LET cc == norm_country_code(country)
             at(r) == r.country_code = cc /\ r.plz2 = plz2
         IN  SelectSeq(d.dhl_eu_zone_map, at)

\* cand = rates[rates["zone"] == zone], or rates[(country_code == cc) & (zone == zone)]
dhl_cand(d, sc, country, zone) ==
    IF sc = <<"D", "E">>
    THEN LET inzone(r) == r.zone = zone
         IN  SelectSeq(d.dhl_de_rates, inzone)
    ELSE LET cc == norm_country_code(country)
             inzone(r) == r.country_code = cc /\ r.zone = zone
         IN  SelectSeq(d.dhl_eu_rates_long, inzone)

dhl_quote(d, sc, country, plz2, w, fuel_pct, security_pct) ==
    LET de == sc = <<"D", "E">>
        cc == IF de THEN << >> ELSE norm_country_code(country)
        row == dhl_zone_row(d, sc, country, plz2)
    IN  IF Len(row) = 0
        THEN Quote(None, Some(Error(IF de THEN "DHL: no zone for DE PLZ2"
                                          ELSE "DHL: no zone for EU country-PLZ2",
                                    cc, plz2, 0)))
        ELSE
            LET zone == row[1].zone
                cand == dhl_cand(d, sc, country, zone)
                band == pick_weight_band(cand, w)
            IN  IF band = None
                THEN Quote(None, Some(Error(IF de THEN "DHL: no weight band for DE zone"
                                                  ELSE "DHL: no weight band for EU zone",
                                            cc, << >>, zone)))
                ELSE
                    LET base == band[1].price
                        total == dhl_total(base, fuel_pct, security_pct)
                        place == IF de THEN <<"D", "E", "-">> \o plz2
                                 ELSE cc \o <<"-">> \o plz2
                        detail == dhl_detail(place, zone, base, fuel_pct, security_pct, total)
                    IN  Quote(Some([base |-> base, total |-> total, zone |-> zone,
                                    detail |-> detail]), None)

\* the alias dict of raben_quote: user input (lower case) -> country name of the tables
alias ==
    << << <<"p", "l">>,                          <<"p", "o", "l", "e", "n">> >>,
       << <<"p", "o", "l", "a", "n", "d">>,      <<"p", "o", "l", "e", "n">> >>,
       << <<"p", "o", "l", "e", "n">>,           <<"p", "o", "l", "e", "n">> >>,
       << <<"d", "e">>,                          <<"d", "e", "u", "t", "s", "c", "h", "l", "a", "n", "d">> >>,
       << <<"g", "e", "r", "m", "a", "n", "y">>, <<"d", "e", "u", "t", "s", "c", "h", "l", "a", "n", "d">> >>,
       << <<"d", "e", "u", "t", "s", "c", "h", "l", "a", "n", "d">>,
                                                 <<"d", "e", "u", "t", "s", "c", "h", "l", "a", "n", "d">> >>,
       << <<"b", "g">>,                          <<"b", "u", "l", "g", "a", "r", "i", "e", "n">> >>,
       << <<"b", "u", "l", "g", "a", "r", "i", "a">>,
                                                 <<"b", "u", "l", "g", "a", "r", "i", "e", "n">> >>,
       << <<"b", "u", "l", "g", "a", "r", "i", "e", "n">>,
                                                 <<"b", "u", "l", "g", "a", "r", "i", "e", "n">> >>,
       << <<"l", "v">>,                          <<"l", "e", "t", "t", "l", "a", "n", "d">> >>,
       << <<"l", "a", "t", "v", "i", "a">>,      <<"l", "e", "t", "t", "l", "a", "n", "d">> >>,
       << <<"l", "e", "t", "t", "l", "a", "n", "d">>,
                                                 <<"l", "e", "t", "t", "l", "a", "n", "d">> >> >>

\* alias.get(user, user)
alias_get(user) ==
    IF \E i \in 1..Len(alias) : alias[i][1] = user
    THEN alias[CHOOSE i \in 1..Len(alias) : alias[i][1] = user][2]
    ELSE user

\* fees: the flat fees of the selected options
raben_fees(adr_, avis_, ins_value, adr_fee, avis_fee, insurance_min) ==
    (IF adr_ THEN adr_fee ELSE 0)
    + (IF avis_ THEN avis_fee ELSE 0)
    + (IF ins_value > 0 THEN insurance_min ELSE 0)

\* the flat fees added before the percentage is applied
raben_total_FeesInBase(base, daf_pct, fees) == ((base + fees) * (100 + daf_pct)) \div 100

\* total = base * (1.0 + daf_pct) + fees
raben_total(base, daf_pct, fees) == (base * (100 + daf_pct)) \div 100 + fees

\* every option listed in the detail line, selected or not
raben_parts_AllOptions(display_country, zone, base, daf_pct, adr_, avis_, ins_value, adr_fee, avis_fee, insurance_min, total) ==
    << Part("Zone", display_country, zone),
       Part("Base", << >>, format_money(base)),
       Part("DAF", << >>, daf_pct),
       Part("ADR", << >>, format_money(adr_fee)),
       Part("Avis", << >>, format_money(avis_fee)),
       Part("InsuranceMin", << >>, format_money(insurance_min)),
       Part("Total", << >>, format_money(total)) >>

raben_parts(display_country, zone, base, daf_pct, adr_, avis_, ins_value, adr_fee, avis_fee, insurance_min, total) ==
    << Part("Zone", display_country, zone),
       Part("Base", << >>, format_money(base)),
       Part("DAF", << >>, daf_pct) >>
    \o (IF adr_ THEN << Part("ADR", << >>, format_money(adr_fee)) >> ELSE << >>)
    \o (IF avis_ THEN << Part("Avis", << >>, format_money(avis_fee)) >> ELSE << >>)
    \o (IF ins_value > 0
        THEN << Part("InsuranceMin", << >>, format_money(insurance_min)) >> ELSE << >>)
    \o << Part("Total", << >>, format_money(total)) >>

\* raben_quote rating a minimum weight of 100 kg instead of the weight it is given
raben_rated_weight_Min100(w) == IF w < 10000 THEN 10000 ELSE w

\* the weight raben_quote hands to pick_weight_band: its weight argument
raben_rated_weight(w) == w

\* country_norm = alias.get(user, user), forced to "deutschland" for scope DE
raben_country_norm(sc, country) ==
    LET user == norm_country_name(country)
        country_norm == alias_get(user)
    IN  IF sc = <<"D", "E">>
        THEN <<"d", "e", "u", "t", "s", "c", "h", "l", "a", "n", "d">>
        ELSE country_norm

\* row = zmap[(scope == scope) & (country_norm == country_norm) & (plz2 == plz2)]
raben_zone_row(d, sc, country, plz2) ==
    LET country_norm == raben_country_norm(sc, country)
        at(r) == r.scope = sc /\ r.country_norm = country_norm /\ r.plz2 = plz2
    IN  SelectSeq(d.raben_zone_map, at)

\* cand = rates[(scope == scope) & (country_norm == country_norm) & (zone == zone)]
raben_cand(d, sc, country, zone) ==
    LET country_norm == raben_country_norm(sc, country)
        inzone(r) == r.scope = sc /\ r.country_norm = country_norm /\ r.zone = zone
    IN  SelectSeq(d.raben_rates_long, inzone)

raben_quote(d, sc, country, plz2, w, daf_pct, adr_, avis_, ins_value, adr_fee, avis_fee, insurance_min) ==
    LET row == raben_zone_row(d, sc, country, plz2)
    IN  IF Len(row) = 0
        THEN Quote(None, Some(Error("Raben: no zone for scope/country/PLZ2",
                                    sc \o <<"/">> \o country, plz2, 0)))
        ELSE
            LET zone == row[1].zone
                cand == raben_cand(d, sc, country, zone)
                band == pick_weight_band(cand, raben_rated_weight(w))
            IN  IF band = None
                THEN Quote(None, Some(Error("Raben: no weight band for scope/country zone",
                                            sc \o <<"/">> \o country, << >>, zone)))
                ELSE
                    LET base == band[1].price
                        fees == raben_fees(adr_, avis_, ins_value, adr_fee, avis_fee,
                                           insurance_min)
                        total == raben_total(base, daf_pct, fees)
                        display_country == row[1].country
                        detail == raben_parts(display_country, zone, base, daf_pct, adr_,
                                              avis_, ins_value, adr_fee, avis_fee,
                                              insurance_min, total)
                    IN  Quote(Some([base |-> base, total |-> total, zone |-> zone,
                                    detail |-> detail]), None)

(***************************************************************************)
(* The CSV files.  Two sets of files the page may be started on.  A cell   *)
(* of a text column is str(x) of the value pandas read (the PLZ columns    *)
(* hold a non-numeric cell where they hold an empty one, so pandas keeps   *)
(* them as text).  Prices: 450000 = 45.00 EUR.  Weights: 10000 = 100 kg.    *)
(***************************************************************************)
sDE == <<"D", "E">>
sEU == <<"E", "U">>
cDeutschland == <<"D", "e", "u", "t", "s", "c", "h", "l", "a", "n", "d">>
cPolen == <<"P", "o", "l", "e", "n">>
cBlank == <<"n", "a", "n">>     \* str() of an empty cell (NaN)

Band(zone, w_from, w_to, price) ==
    [zone |-> zone, w_from |-> w_from, w_to |-> w_to, price |-> price]

EuBand(cc, zone, w_from, w_to, price) ==
    [country_code |-> cc, zone |-> zone, w_from |-> w_from, w_to |-> w_to, price |-> price]

RabenBand(sc, country, zone, w_from, w_to, price) ==
    [scope |-> sc, country |-> country, zone |-> zone, w_from |-> w_from,
     w_to |-> w_to, price |-> price]

RabenZone(sc, country, plz, zone) ==
    [scope |-> sc, country |-> country, plz |-> plz, zone |-> zone]

\* equal-width and unequal-width adjacent bands, a zone whose table starts at 50 kg,
\* zone-map rows with an empty PLZ cell, rows with an empty zone or price cell
FilesA ==
    [dhl_de_plz2_zone |->
        << [plz2 |-> <<"3", "8">>, zone |-> 2],
           [plz2 |-> <<"8">>, zone |-> 1],
           [plz2 |-> <<"8", "8">>, zone |-> NaN],
           [plz2 |-> <<"8", "8", "-", "0", "0", "1">>, zone |-> 3],
           [plz2 |-> cBlank, zone |-> 1] >>,
     dhl_de_rates |->
        << Band(1, 0, 10000, 300000),
           Band(1, 10000, 15000, 400000),
           Band(1, 15000, 50000, 550000),
           Band(2, 0, 10000, 320000),
           Band(2, 10000, 20000, 450000),
           Band(3, 5000, 10000, 350000),
           Band(3, 10000, 20000, NaN) >>,
     dhl_eu_zone_map |->
        << [country_code |-> <<"p", "l", " ">>, plz2 |-> <<"3", "8">>, zone |-> 4],
           [country_code |-> <<"P", "L">>, plz2 |-> <<"8", "8">>, zone |-> 5] >>,
     dhl_eu_rates_long |->
        << EuBand(<<"P", "L">>, 4, 0, 10000, 500000),
           EuBand(<<"P", "L">>, 4, 10000, 30000, 800000),
           EuBand(<<"P", "L">>, 5, 0, 50000, 900000) >>,
     raben_zone_map |->
        << RabenZone(sDE, cDeutschland, <<"3", "8">>, 5),
           RabenZone(sDE, cDeutschland, <<"0", "8", "-", "1">>, 6),
           RabenZone(<<"d", "e", " ">>, cDeutschland, cBlank, 5),
           RabenZone(sEU, cPolen, <<"3", "8">>, 7),
           RabenZone(sEU, cPolen, <<"8">>, 8) >>,
     raben_rates_long |->
        << RabenBand(sDE, cDeutschland, 5, 0, 10000, 600000),
           RabenBand(sDE, cDeutschland, 5, 10000, 15000, 700000),
           RabenBand(sDE, cDeutschland, 5, 15000, 500000, 900000),
           RabenBand(sDE, cDeutschland, 6, 0, 5000, 650000),
           RabenBand(sDE, cDeutschland, 6, 5000, 20000, 850000),
           RabenBand(sEU, cPolen, 7, 0, 10000, 1200000),
           RabenBand(sEU, cPolen, 7, 10000, 500000, 1800000),
           RabenBand(sEU, cPolen, 8, 5000, 20000, 1500000) >>]

\* tables with gaps between the bands, overlapping bands, two bands sharing the
\* largest w_to, and zones without any rate
FilesB ==
    [dhl_de_plz2_zone |->
        << [plz2 |-> <<"3", "8", "1", "1", "0">>, zone |-> 1],
           [plz2 |-> <<"8", "8">>, zone |-> 2],
           [plz2 |-> <<"8">>, zone |-> 9] >>,
     dhl_de_rates |->
        << Band(1, 100, 5000, 250000),
           Band(1, 5100, 10000, 300000),
           Band(1, 10100, 20000, 420000),
           Band(2, 0, 20000, 500000),
           Band(2, 5000, 15000, 380000),
           Band(2, 12000, 20000, 360000) >>,
     dhl_eu_zone_map |->
        << [country_code |-> <<"P", "L">>, plz2 |-> <<"8", "8">>, zone |-> 1],
           [country_code |-> <<"P", "O", "L", "E", "N">>, plz2 |-> <<"3", "8">>, zone |-> 2] >>,
     dhl_eu_rates_long |->
        << EuBand(<<"P", "L">>, 1, 0, 20000, 700000),
           EuBand(<<"P", "O", "L", "E", "N">>, 2, 0, 20000, 750000) >>,
     raben_zone_map |->
        << RabenZone(sDE, cDeutschland, <<"3", "8">>, 1),
           RabenZone(sDE, cDeutschland, <<"0", "8">>, 2),
           RabenZone(sEU, <<"p", "o", "l", "e", "n", " ">>, <<"8", "8">>, 3),
           RabenZone(sEU, cPolen, <<"0", "8">>, 4) >>,
     raben_rates_long |->
        << RabenBand(sDE, cDeutschland, 1, 0, 10000, 550000),
           RabenBand(sDE, cDeutschland, 1, 10000, 20000, 750000),
           RabenBand(sDE, cDeutschland, 1, 20000, 500000, 950000),
           RabenBand(sEU, cPolen, 3, 0, 20000, 1100000),
           RabenBand(sEU, cPolen, 3, 20000, 500000, 1900000) >>]

RawDataSets == {"A", "B"}

\* the six CSV files under data/, rows as read by pandas
Files(name) == IF name = "A" THEN FilesA ELSE FilesB

(***************************************************************************)
(* The widgets' values.                                                    *)
(***************************************************************************)
Scopes == {sDE, sEU}

Countries == {cDeutschland, <<"P", "L">>, <<" ", "p", "o", "l", "e", "n">>,
              <<"P", "o", "l", "a", "n", "d">>}

PlzChars == {"8", "-"}

RECURSIVE StringsUpTo(_)
StringsUpTo(n) ==
    IF n = 0 THEN {<< >>}
    ELSE LET shorter == StringsUpTo(n - 1)
         IN  shorter \cup {Append(s, c) : s \in shorter, c \in PlzChars}

\* the default values of the field, and every short string of PlzChars
PlzInputs == {<<"3", "8">>, <<"4", "4">>, <<"3", "8", "1", "1", "0">>} \cup StringsUpTo(MaxPlzLen)

Weights == {4000, 10000, 10001, 15000, 20000, 600000}

InsuranceValues == {0, 5000000}

DefaultParams ==
    [fuel_pct |-> 12, security_pct |-> 0, daf_pct |-> 10,
     adr_fee |-> 125000, avis_fee |-> 120000, insurance_min |-> 59500]

ParamSets ==
    {DefaultParams,
     [fuel_pct |-> 15, security_pct |-> 5, daf_pct |-> 25,
      adr_fee |-> 200000, avis_fee |-> 0, insurance_min |-> 100000]}

(***************************************************************************)
(* The page.  Streamlit runs the script top to bottom on every widget      *)
(* change and on every click; only the run a click starts has btn = True.  *)
(***************************************************************************)
Init ==
    /\ raw \in RawDataSets
    /\ data = load_all_data(Files(raw))
    /\ scope = sDE
    /\ dest_country = cDeutschland
    /\ weight = 20000
    /\ plz_input = <<"3", "8">>
    /\ dest_plz2 = norm_plz2(plz_input)
    /\ adr = FALSE
    /\ avis = FALSE
    /\ insurance_value = 0
    /\ params = DefaultParams
    /\ btn = FALSE
    /\ dhl_res = None /\ dhl_err = None
    /\ raben_res = None /\ raben_err = None

\* a run without a click: the else branch, no quote is computed or shown
NoClickRun ==
    /\ btn' = FALSE
    /\ dhl_res' = None /\ dhl_err' = None
    /\ raben_res' = None /\ raben_err' = None
    /\ UNCHANGED << raw, data >>

SetScope ==
    /\ \E s \in Scopes : scope' = s
    /\ NoClickRun
    /\ UNCHANGED << dest_country, weight, plz_input, dest_plz2, adr, avis,
                    insurance_value, params >>

SetCountry ==
    /\ \E c \in Countries : dest_country' = c
    /\ NoClickRun
    /\ UNCHANGED << scope, weight, plz_input, dest_plz2, adr, avis,
                    insurance_value, params >>

SetWeight ==
    /\ \E w \in Weights : weight' = w
    /\ NoClickRun
    /\ UNCHANGED << scope, dest_country, plz_input, dest_plz2, adr, avis,
                    insurance_value, params >>

SetPlz ==
    /\ \E p \in PlzInputs : plz_input' = p
    /\ dest_plz2' = norm_plz2(plz_input')
    /\ NoClickRun
    /\ UNCHANGED << scope, dest_country, weight, adr, avis, insurance_value, params >>

SetAdr ==
    /\ adr' = ~adr
    /\ NoClickRun
    /\ UNCHANGED << scope, dest_country, weight, plz_input, dest_plz2, avis,
                    insurance_value, params >>

SetAvis ==
    /\ avis' = ~avis
    /\ NoClickRun
    /\ UNCHANGED << scope, dest_country, weight, plz_input, dest_plz2, adr,
                    insurance_value, params >>

SetInsurance ==
    /\ \E v \in InsuranceValues : insurance_value' = v
    /\ NoClickRun
    /\ UNCHANGED << scope, dest_country, weight, plz_input, dest_plz2, adr, avis, params >>

SetParams ==
    /\ \E p \in ParamSets : params' = p
    /\ NoClickRun
    /\ UNCHANGED << scope, dest_country, weight, plz_input, dest_plz2, adr, avis,
                    insurance_value >>

\* the click run with the second quote skipped once the first one has failed
ButtonHandler_ShortCircuit ==
    LET dq == dhl_quote(data, scope, dest_country, dest_plz2, weight,
                        params.fuel_pct, params.security_pct)
        rq == IF dq.err # None THEN Quote(None, None)
              ELSE raben_quote(data, scope, dest_country, dest_plz2, weight, params.daf_pct,
                               adr, avis, insurance_value, params.adr_fee, params.avis_fee,
                               params.insurance_min)
    IN  /\ btn' = TRUE
        /\ dhl_res' = dq.res /\ dhl_err' = dq.err
        /\ raben_res' = rq.res /\ raben_err' = rq.err
        /\ UNCHANGED << raw, data, inputs >>

\* the click run with the candidate rows of a quote written back to the cached table
ButtonHandler_InPlace ==
    LET dq == dhl_quote(data, scope, dest_country, dest_plz2, weight,
                        params.fuel_pct, params.security_pct)
        rq == raben_quote(data, scope, dest_country, dest_plz2, weight, params.daf_pct,
                          adr, avis, insurance_value, params.adr_fee, params.avis_fee,
                          params.insurance_min)
        inzone(r) == rq.res # None /\ r.zone = rq.res[1].zone
    IN  /\ btn' = TRUE
        /\ dhl_res' = dq.res /\ dhl_err' = dq.err
        /\ raben_res' = rq.res /\ raben_err' = rq.err
        /\ data' = IF rq.res = None THEN data
                   ELSE [data EXCEPT !.raben_rates_long = SelectSeq(@, inzone)]
        /\ UNCHANGED << raw, inputs >>

\* if btn: both quotes are computed from the cached tables and the widgets' values
ButtonHandler ==
    LET dq == dhl_quote(data, scope, dest_country, dest_plz2, weight,
                        params.fuel_pct, params.security_pct)
        rq == raben_quote(data, scope, dest_country, dest_plz2, weight, params.daf_pct,
                          adr, avis, insurance_value, params.adr_fee, params.avis_fee,
                          params.insurance_min)
    IN  /\ btn' = TRUE
        /\ dhl_res' = dq.res /\ dhl_err' = dq.err
        /\ raben_res' = rq.res /\ raben_err' = rq.err
        /\ UNCHANGED << raw, data, inputs >>

Next ==
    \/ SetScope
    \/ SetCountry
    \/ SetWeight
    \/ SetPlz
    \/ SetAdr
    \/ SetAvis
    \/ SetInsurance
    \/ SetParams
    \/ ButtonHandler

Spec == Init /\ [][Next]_vars

(***************************************************************************)
(* Properties.  They speak about the run a click started (btn): the quotes *)
(* shown are those of the widgets' current values.                         *)
(***************************************************************************)
Loaded == load_all_data(Files(raw))

DhlRow == dhl_zone_row(data, scope, dest_country, dest_plz2)
DhlCand == IF Len(DhlRow) = 0 THEN << >>
           ELSE dhl_cand(data, scope, dest_country, DhlRow[1].zone)

RabenRow == raben_zone_row(data, scope, dest_country, dest_plz2)
RabenCand == IF Len(RabenRow) = 0 THEN << >>
             ELSE raben_cand(data, scope, dest_country, RabenRow[1].zone)

Rows(df) == {df[i] : i \in 1..Len(df)}

\* the weight is above the upper bound of every bracket of the (non-empty) frame
AboveAll(df, w) == Len(df) > 0 /\ \A r \in Rows(df) : w > r.w_to

\* the first row, in table order, with the largest w_to
FirstWidest(df) ==
    df[CHOOSE i \in 1..Len(df) :
          /\ \A j \in 1..Len(df) : df[j].w_to <= df[i].w_to
          /\ \A j \in 1..(i - 1) : df[j].w_to < df[i].w_to]

\* C1 (as specified): when the requested weight is above the upper bound of every
\* bracket of the resolved zone, the carrier's outcome is a failure, never a quote.
C1_OverweightFails ==
    btn =>
        /\ AboveAll(DhlCand, weight) => (dhl_res = None /\ dhl_err # None)
        /\ AboveAll(RabenCand, weight) => (raben_res = None /\ raben_err # None)

\* C1 (as coded): when the requested weight is above the upper bound of every
\* bracket of the resolved zone, the carrier's outcome is a quote whose base is the
\* price of the first bracket, in table order, with the largest upper bound.
C1_OverweightTakesWidest ==
    btn =>
        /\ AboveAll(DhlCand, weight) =>
              /\ dhl_err = None /\ dhl_res # None
              /\ dhl_res[1].base = FirstWidest(DhlCand).price
        /\ AboveAll(RabenCand, weight) =>
              /\ raben_err = None /\ raben_res # None
              /\ raben_res[1].base = FirstWidest(RabenCand).price

\* a Raben quote for 6000 kg in a zone whose table ends at 5000 kg
C1_Witness ==
    /\ btn
    /\ weight = 600000
    /\ AboveAll(RabenCand, weight)
    /\ FirstWidest(RabenCand).w_to = 500000
    /\ raben_res # None

\* the bracket convention of the specification: [0, w_to] and (w_from, w_to]
ClaimContains(r, w) ==
    IF r.w_from = 0 THEN 0 <= w /\ w <= r.w_to ELSE r.w_from < w /\ w <= r.w_to

\* C2 (as specified): for adjacent brackets [a, b] and [b, c] of the resolved zone,
\* whatever their widths, weight b is rated at the price of the bracket ending at b,
\* and this for both carriers.
C2_BoundaryBelongsToLowerBracket ==
    btn =>
        /\ \A lo \in Rows(RabenCand), hi \in Rows(RabenCand) :
              (lo.w_from < lo.w_to /\ lo.w_to = hi.w_from /\ hi.w_from < hi.w_to
               /\ weight = lo.w_to)
              => (raben_res # None /\ raben_res[1].base = lo.price)
        /\ \A lo \in Rows(DhlCand), hi \in Rows(DhlCand) :
              (lo.w_from < lo.w_to /\ lo.w_to = hi.w_from /\ hi.w_from < hi.w_to
               /\ weight = lo.w_to)
              => (dhl_res # None /\ dhl_res[1].base = lo.price)

\* the tables of one carrier replaced by those of another set of files, or emptied
WithDhlOf(d, other) ==
    [d EXCEPT !.dhl_de_plz2_zone = other.dhl_de_plz2_zone,
              !.dhl_de_rates = other.dhl_de_rates,
              !.dhl_eu_zone_map = other.dhl_eu_zone_map,
              !.dhl_eu_rates_long = other.dhl_eu_rates_long]

WithRabenOf(d, other) ==
    [d EXCEPT !.raben_zone_map = other.raben_zone_map,
              !.raben_rates_long = other.raben_rates_long]

NoTables ==
    [dhl_de_plz2_zone |-> << >>, dhl_de_rates |-> << >>, dhl_eu_zone_map |-> << >>,
     dhl_eu_rates_long |-> << >>, raben_zone_map |-> << >>, raben_rates_long |-> << >>]

OtherTables == {load_all_data(Files(n)) : n \in RawDataSets} \cup {NoTables}

\* C3: in a click run both carriers are attempted, each returns a result or an error,
\* and either carrier's outcome is the one it has whatever the other carrier's tables
\* make of the request (zone found or not, bracket found or not).
C3_Independence ==
    btn =>
        /\ (dhl_res = None) # (dhl_err = None)
        /\ (raben_res = None) # (raben_err = None)
        /\ \A other \in OtherTables :
              /\ Quote(raben_res, raben_err) =
                    raben_quote(WithDhlOf(data, other), scope, dest_country, dest_plz2,
                                weight, params.daf_pct, adr, avis, insurance_value,
                                params.adr_fee, params.avis_fee, params.insurance_min)
              /\ Quote(dhl_res, dhl_err) =
                    dhl_quote(WithRabenOf(data, other), scope, dest_country, dest_plz2,
                              weight, params.fuel_pct, params.security_pct)

\* DHL has no zone for the destination, Raben quotes it
C3_Witness ==
    /\ btn
    /\ Len(DhlRow) = 0 /\ dhl_res = None /\ dhl_err # None
    /\ raben_res # None /\ raben_err = None
    /\ raben_res[1].base = pick_weight_band(RabenCand, weight)[1].price

\* the flat fees of the selected options, from the widgets
SelectedFees ==
    (IF adr THEN params.adr_fee ELSE 0)
    + (IF avis THEN params.avis_fee ELSE 0)
    + (IF insurance_value > 0 THEN params.insurance_min ELSE 0)

\* C4 (as specified): a Raben total is base + base * dieselFloaterPercent + base * DAFPercent
\* + base * mobilityFloaterPercent + the flat fees of the selected options, whatever
\* diesel floater and mobility floater percentages are configured (0 %, 3 % or 6 %).
C4_TotalWithFloaters ==
    (btn /\ raben_res # None) =>
        \A diesel \in {0, 3, 6}, mobility \in {0, 3, 6} :
            100 * raben_res[1].total =
                100 * raben_res[1].base
                + raben_res[1].base * diesel
                + raben_res[1].base * params.daf_pct
                + raben_res[1].base * mobility
                + 100 * SelectedFees

\* C4 (as coded): a Raben total is base + base * DAFPercent + the flat fees of the
\* selected options (ADR, appointment delivery, the insurance minimum when the insurance
\* value is > 0, whatever that value); no diesel or mobility floater is applied.
C4_TotalBaseDafFees ==
    (btn /\ raben_res # None) =>
        /\ 100 * raben_res[1].total =
              100 * raben_res[1].base + raben_res[1].base * params.daf_pct
              + 100 * SelectedFees
        /\ raben_res[1].base \in {r.price : r \in Rows(RabenCand)}

\* a Raben quote with every option selected and a DAF percentage
C4_Witness ==
    /\ btn /\ raben_res # None
    /\ adr /\ avis /\ insurance_value > 0
    /\ params.daf_pct > 0 /\ params.adr_fee > 0 /\ params.insurance_min > 0
    /\ raben_res[1].total > raben_res[1].base + SelectedFees

\* C5: a DHL total, in both scopes, is base + base * fuelPercent + base * securityPercent,
\* base being the price of a bracket of the resolved zone.
C5_DhlTotal ==
    (btn /\ dhl_res # None) =>
        /\ 100 * dhl_res[1].total =
              100 * dhl_res[1].base + dhl_res[1].base * params.fuel_pct
              + dhl_res[1].base * params.security_pct
        /\ dhl_res[1].base \in {r.price : r \in Rows(DhlCand)}

\* base 45.00, fuel 12 %, security 0 %: total 50.40
C5_Witness ==
    /\ btn /\ dhl_res # None
    /\ dhl_res[1].base = 450000
    /\ params.fuel_pct = 12 /\ params.security_pct = 0
    /\ dhl_res[1].total = 504000

Labels(detail) == {detail[i].label : i \in 1..Len(detail)}

AmountOf(detail, label) ==
    detail[CHOOSE i \in 1..Len(detail) : detail[i].label = label].amount

\* C6 (as specified): the breakdown of a Raben quote holds a line for every surcharge,
\* those of the options not selected included, at 0.00.
C6_AllSurchargesListed ==
    (btn /\ raben_res # None) =>
        LET detail == raben_res[1].detail
        IN  /\ {"ADR", "Avis", "InsuranceMin"} \subseteq Labels(detail)
            /\ ~adr => AmountOf(detail, "ADR") = 0
            /\ ~avis => AmountOf(detail, "Avis") = 0
            /\ insurance_value = 0 => AmountOf(detail, "InsuranceMin") = 0

\* C6 (as coded): the breakdown of a Raben quote holds the zone, the base, the DAF
\* percentage and the total, and a line for ADR, appointment delivery and the insurance
\* minimum exactly when that option is selected, showing its flat fee.
C6_SelectedSurchargesListed ==
    (btn /\ raben_res # None) =>
        LET detail == raben_res[1].detail
        IN  /\ {"Zone", "Base", "DAF", "Total"} \subseteq Labels(detail)
            /\ ("ADR" \in Labels(detail)) = adr
            /\ ("Avis" \in Labels(detail)) = avis
            /\ ("InsuranceMin" \in Labels(detail)) = (insurance_value > 0)
            /\ adr => AmountOf(detail, "ADR") = format_money(params.adr_fee)
            /\ avis => AmountOf(detail, "Avis") = format_money(params.avis_fee)
            /\ insurance_value > 0 =>
                  AmountOf(detail, "InsuranceMin") = format_money(params.insurance_min)
            /\ AmountOf(detail, "Base") = format_money(raben_res[1].base)
            /\ AmountOf(detail, "Total") = format_money(raben_res[1].total)

\* a Raben quote with ADR selected, without insurance
C6_Witness ==
    /\ btn /\ raben_res # None
    /\ adr /\ ~avis /\ insurance_value = 0
    /\ Len(raben_res[1].detail) = 5

Max(a, b) == IF a >= b THEN a ELSE b

\* C7 (as specified): Raben is rated on the chargeable weight max(actual weight, minimum of
\* the packaging type, volume * 200, loading meters * 1000), whatever the packaging type
\* (minimum 15, 100, 200 or 300 kg), here without volume and loading meters: the base
\* is the price of the bracket that holds the chargeable weight.
C7_RatedOnChargeableWeight ==
    (btn /\ raben_res # None) =>
        \A minimum \in {1500, 10000, 20000, 30000} :
            LET chargeable == Max(Max(weight, minimum), Max(0 * 200, 0 * 1000))
            IN  \A r \in Rows(RabenCand) :
                    ClaimContains(r, chargeable) => raben_res[1].base = r.price

\* C7 (as coded): both carriers are rated on the actual weight; the base quoted is the
\* price of a bracket of the resolved zone that holds the actual weight (bounds
\* included) or, when the weight is above every bracket, has the largest upper bound.
C7_RatedOnActualWeight ==
    btn =>
        /\ raben_res # None =>
              \E r \in Rows(RabenCand) :
                  /\ r.price = raben_res[1].base
                  /\ \/ r.w_from <= weight /\ weight <= r.w_to
                     \/ AboveAll(RabenCand, weight) /\ r = FirstWidest(RabenCand)
        /\ dhl_res # None =>
              \E r \in Rows(DhlCand) :
                  /\ r.price = dhl_res[1].base
                  /\ \/ r.w_from <= weight /\ weight <= r.w_to
                     \/ AboveAll(DhlCand, weight) /\ r = FirstWidest(DhlCand)

\* 40 kg quoted by Raben in the bracket 0-50 kg of a zone whose next bracket is 50-200 kg
C7_Witness ==
    /\ btn /\ raben_res # None
    /\ weight = 4000
    /\ \E r \in Rows(RabenCand) : r.w_from = 0 /\ r.w_to = 5000 /\ r.price = raben_res[1].base
    /\ \E r \in Rows(RabenCand) : r.w_from = 5000 /\ r.w_to >= 10000
                                  /\ r.price # raben_res[1].base

\* C8 (as specified): a PLZ input with >= 2 digits gives its first 2 digits, one with 1
\* digit that digit after a "0", and one without any digit is rejected before any zone
\* lookup: no carrier quotes it, and no carrier reports a zone that was looked up and
\* not found.
C8_NoDigitsRejected ==
    LET digits == only_digits(plz_input)
    IN  /\ Len(digits) >= 2 => dest_plz2 = SubSeq(digits, 1, 2)
        /\ Len(digits) = 1 => dest_plz2 = <<"0">> \o digits
        /\ (btn /\ Len(digits) = 0) =>
              /\ dhl_res = None /\ raben_res = None
              /\ dhl_err # None /\ dhl_err[1].msg \notin {"DHL: no zone for DE PLZ2",
                                                        "DHL: no zone for EU country-PLZ2"}
              /\ raben_err # None /\ raben_err[1].msg # "Raben: no zone for scope/country/PLZ2"

\* two countries with their ISO code, English name and Raben name (lower case)
AliasGroups ==
    { { <<"p", "l">>, <<"p", "o", "l", "a", "n", "d">>, <<"p", "o", "l", "e", "n">> },
      { <<"d", "e">>, <<"g", "e", "r", "m", "a", "n", "y">>,
        <<"d", "e", "u", "t", "s", "c", "h", "l", "a", "n", "d">> } }

SameCountry(c1, c2) ==
    \E g \in AliasGroups : lower(strip(c1)) \in g /\ lower(strip(c2)) \in g

\* C9 (as specified): in a cross-border quote, any alias of the destination country entered
\* instead gives both carriers the same outcome: the same zone, base and total, or a
\* failure for both inputs.
C9_AliasesQuoteAlike ==
    (btn /\ scope = sEU) =>
        \A c \in Countries :
            SameCountry(dest_country, c) =>
                LET dq == dhl_quote(data, scope, c, dest_plz2, weight,
                                    params.fuel_pct, params.security_pct)
                    rq == raben_quote(data, scope, c, dest_plz2, weight, params.daf_pct,
                                      adr, avis, insurance_value, params.adr_fee,
                                      params.avis_fee, params.insurance_min)
                IN  /\ (dq.res = None) = (dhl_res = None)
                    /\ dq.res # None =>
                          /\ dq.res[1].zone = dhl_res[1].zone
                          /\ dq.res[1].base = dhl_res[1].base
                          /\ dq.res[1].total = dhl_res[1].total
                    /\ (rq.res = None) = (raben_res = None)
                    /\ rq.res # None =>
                          /\ rq.res[1].zone = raben_res[1].zone
                          /\ rq.res[1].base = raben_res[1].base
                          /\ rq.res[1].total = raben_res[1].total

====
